---- MODULE Spec2Model ----
(***************************************************************************)
(* Model of src/src/proton.rs: the Bugzilla/Jira reconciliation run.       *)
(*                                                                         *)
(* Strings are sequences of tokens (a token is a character or an atomic    *)
(* substring such as a URL prefix), so that replace/ends_with/parse are    *)
(* computed on the text.  Option<T> is a sequence of length 0 or 1.        *)
(***************************************************************************)
EXTENDS Integers, Sequences, FiniteSets, TLC

\* ------------------------------------------------------------------ bounds
NumIssues == 2      \* Jira issue keys FIDEFE-1 .. FIDEFE-NumIssues
NumBugs == 1        \* Bugzilla bug numbers 1 .. NumBugs
MaxPoints == 1      \* story points 0 .. MaxPoints
MaxIds == 450       \* longest list of identifiers the batching is run on
ChunkSize == 200    \* links.chunks(200) / issues.chunks(200)

\* ------------------------------------------------------------------ values
None == <<>>
Some(x) == <<x>>
IsSome(o) == Len(o) > 0
Str(t) == <<t>>

BzUrlPrefix == "https://bugzilla.mozilla.org/show_bug.cgi?id="
Migrated == " (migrated)"
PhabType == "text/x-phabricator-request"
MozillaCom == "@mozilla.com"

\* BLAKE, the fallback assignee
BLAKE == Some(<<"bwinton", "@mozilla.com">>)
Nobody == <<"nobody", "@mozilla.org">>

DigitChar == <<"0", "1", "2", "3", "4", "5", "6", "7", "8", "9">>
IsDigit(c) == \E d \in 1..10 : DigitChar[d] = c
DigitVal(c) == (CHOOSE d \in 1..10 : DigitChar[d] = c) - 1

\* u64::to_string
RECURSIVE U64ToString(_)
U64ToString(n) ==
    IF n < 10 THEN <<DigitChar[n + 1]>>
    ELSE U64ToString(n \div 10) \o <<DigitChar[(n % 10) + 1]>>

\* str::parse::<u64>().ok(): an optional leading "+", then one or more digits
RECURSIVE DigitsValue(_, _)
DigitsValue(s, acc) ==
    IF s = <<>> THEN acc
    ELSE DigitsValue(Tail(s), acc * 10 + DigitVal(Head(s)))

ParseU64(s) ==
    LET body == IF s # <<>> /\ Head(s) = "+" THEN Tail(s) ELSE s
    IN  IF body # <<>> /\ \A i \in 1..Len(body) : IsDigit(body[i])
        THEN Some(DigitsValue(body, 0))
        ELSE None

\* str::replace(pat, ""): every occurrence of the token is removed
Remove(s, pat) == SelectSeq(s, LAMBDA t : t # pat)

\* str::ends_with
EndsWith(s, suffix) == s # <<>> /\ s[Len(s)] = suffix

\* f64 as u64 on a value given in halves: truncates, saturates below at 0
AsU64(halves) == IF halves < 0 THEN 0 ELSE halves \div 2

\* faulty variant: the remainder shorter than n is left out (chunks_exact)
RECURSIVE Chunks_Exact(_, _)
Chunks_Exact(s, n) ==
    IF Len(s) < n THEN <<>>
    ELSE <<SubSeq(s, 1, n)>> \o Chunks_Exact(SubSeq(s, n + 1, Len(s)), n)

\* slice::chunks(n)
RECURSIVE Chunks(_, _)
Chunks(s, n) ==
    IF s = <<>> THEN <<>>
    ELSE IF Len(s) <= n THEN <<s>>
    ELSE <<SubSeq(s, 1, n)>> \o Chunks(SubSeq(s, n + 1, Len(s)), n)

Range(s) == {s[i] : i \in 1..Len(s)}

JiraKey(n) == <<"FIDEFE-">> \o U64ToString(n)

\* ------------------------------------------------------------ JiraIssue
\* A raw item of the bulk search response: status is None when the field (or
\* its name) is missing, points is the number in halves, a sprint entry is
\* None when it is not a JSON string.
JiraIssuePanics(item) == item.status = None

JiraIssueNew(item) ==
    [ key      |-> item.key,
      id       |-> <<"https://mozilla-hub.atlassian.net/rest/api/3/issue/">> \o item.key,
      assignee |-> item.assignee,
      epic     |-> item.epic,
      sprints  |-> [i \in 1..Len(item.sprints) |->
                       IF item.sprints[i] = None THEN Str("???") ELSE item.sprints[i][1]],
      status   |-> Remove(item.status[1], Migrated),
      points   |-> IF item.points = None THEN None ELSE Some(AsU64(item.points[1])) ]

\* ------------------------------------------------------------ BugzillaBug
HasPatch(attachments) ==
    \E i \in 1..Len(attachments) :
        /\ attachments[i].content_type = Some(Str(PhabType))
        /\ ~(attachments[i].is_obsolete = 1)

BugzillaBugPanics(link, bz_statuses) ==
    \/ link.bugzilla \notin DOMAIN bz_statuses
    \/ bz_statuses[link.bugzilla].status = None
    \/ bz_statuses[link.bugzilla].cf_fx_points = None

BugzillaBugNew(link, bz_statuses) ==
    LET bz_data == bz_statuses[link.bugzilla]
    IN  [ id        |-> link.bugzilla,
          status    |-> bz_data.status[1],
          points    |-> ParseU64(bz_data.cf_fx_points[1]),
          assignee  |-> IF bz_data.assigned_to = Some(Nobody) THEN None
                        ELSE bz_data.assigned_to,
          has_patch |-> HasPatch(bz_data.attachments),
          jira      |-> link.jira ]

\* faulty variant: REOPENED and VERIFIED folded into "Open" and "Closed"
get_jira_status_Folded(bug) ==
    IF bug.status = Str("ASSIGNED")
    THEN (IF bug.has_patch THEN Str("In Review") ELSE Str("In Progress"))
    ELSE IF bug.status \in {Str("NEW"), Str("UNCONFIRMED"), Str("REOPENED")} THEN Str("Open")
    ELSE IF bug.status \in {Str("RESOLVED"), Str("VERIFIED")} THEN Str("Closed")
    ELSE bug.status

\* BugzillaBug::get_jira_status, lines 239-253
get_jira_status(bug) ==
    IF bug.status = Str("ASSIGNED")
    THEN (IF bug.has_patch THEN Str("In Review") ELSE Str("In Progress"))
    ELSE IF bug.status \in {Str("NEW"), Str("UNCONFIRMED")} THEN Str("Open")
    ELSE IF bug.status = Str("REOPENED") THEN Str("Reopened")
    ELSE IF bug.status = Str("RESOLVED") THEN Str("Closed")
    ELSE bug.status

Aliases ==
    { <<<<"enndeakin", "@gmail.com">>,     <<"neil", "@mozilla.com">>>>,
      <<<<"pbz", "@mozilla.com">>,         <<"pzuhlcke", "@mozilla.com">>>>,
      <<<<"gl", "@mozilla.com">>,          <<"gluong", "@mozilla.com">>>>,
      <<<<"jaws", "@mozilla.com">>,        <<"jwein", "@mozilla.com">>>>,
      <<<<"mozilla", "@kaply.com">>,       <<"mkaply", "@mozilla.com">>>>,
      <<<<"tnikkel", "@gmail.com">>,       <<"tnikkel", "@mozilla.com">>>>,
      <<<<"dao+bmo", "@mozilla.com">>,     <<"dgottwald", "@mozilla.com">>>>,
      <<<<"edilee", "@mozilla.com">>,      <<"elee", "@mozilla.com">>>>,
      <<<<"eitan", "@monotonous.org">>,    <<"eisaacson", "@mozilla.com">>>>,
      <<<<"andrei.br92", "@gmail.com">>,   <<"aoprea", "@mozilla.com">>>> }

\* faulty variant: the domain test comes before the alias table
get_jira_assignee_DomainFirst(bug) ==
    IF bug.assignee = None THEN None
    ELSE LET x == bug.assignee[1]
         IN  IF EndsWith(x, MozillaCom) THEN Some(x)
             ELSE IF \E a \in Aliases : a[1] = x
             THEN Some((CHOOSE a \in Aliases : a[1] = x)[2])
             ELSE BLAKE

\* BugzillaBug::get_jira_assignee, lines 255-274
get_jira_assignee(bug) ==
    IF bug.assignee = None THEN None
    ELSE LET x == bug.assignee[1]
         IN  IF \E a \in Aliases : a[1] = x
             THEN Some((CHOOSE a \in Aliases : a[1] = x)[2])
             ELSE IF EndsWith(x, MozillaCom) THEN Some(x)
             ELSE BLAKE

\* Debug formatting ({:?}) of an Option<u64> and of an Option<String>
FmtPoints(o) == IF o = None THEN Str("None") ELSE <<"Some(">> \o U64ToString(o[1]) \o <<")">>
FmtOptStr(o) == IF o = None THEN Str("None") ELSE <<"Some(\"">> \o o[1] \o <<"\")">>
FmtStr(s) == <<"\"">> \o s \o <<"\"">>

\* ------------------------------------------------------------ JSON map
\* serde_json Map<String, Value>: a function on a finite set of keys; a value
\* is a JSON string or something else.
JString(s) == [isStr |-> TRUE, s |-> s]
JOther == [isStr |-> FALSE, s |-> <<>>]
EmptyMap == [k \in {} |-> JOther]
Insert(m, k, v) == [x \in (DOMAIN m) \cup {k} |-> IF x = k THEN v ELSE m[x]]

\* ------------------------------------------------------------ inputs
AllKeys == {JiraKey(n) : n \in 1..NumIssues}
BugUrl(n) == <<BzUrlPrefix>> \o U64ToString(n)

\* what a jira.cache file that parses as a JSON object can hold
CacheValues == {JString(<<>>), JOther, JString(U64ToString(1)), JString(BugUrl(1))}
CacheMaps == UNION {[S -> CacheValues] : S \in SUBSET AllKeys}
Files == {[kind |-> "absent", data |-> EmptyMap], [kind |-> "corrupt", data |-> EmptyMap]}
         \cup {[kind |-> "json", data |-> m] : m \in CacheMaps}

\* bodies of a remotelink response: a list of objects, each holding a url or
\* lacking object/url (None)
LinkBodies ==
    {<<>>, <<None>>, <<Some(<<BzUrlPrefix>>)>>}
    \cup {<<Some(BugUrl(n))>> : n \in 1..NumBugs}
    \cup {<<Some(BugUrl(1)), Some(<<BzUrlPrefix>>)>>}

JiraItems(key) ==
    { [key |-> key, status |-> Some(<<"Open", Migrated>>), assignee |-> None,
       epic |-> None, points |-> None, sprints |-> <<>>],
      [key |-> key, status |-> Some(Str("In Progress")),
       assignee |-> Some(<<"jwein", "@mozilla.com">>), epic |-> Some(Str("FIDEFE-900")),
       points |-> Some(7), sprints |-> <<Some(Str("Sprint 1"))>>],
      [key |-> key, status |-> None, assignee |-> None,
       epic |-> None, points |-> None, sprints |-> <<>>] }

Phab == [content_type |-> Some(Str(PhabType)), is_obsolete |-> 0]

\* a bug of the bulk response, or None when the server returns nothing for it
BzRecords ==
    { None,
      Some([status |-> Some(Str("NEW")), cf_fx_points |-> Some(Str("3")),
            attachments |-> <<>>, assigned_to |-> Some(<<"jaws", "@mozilla.com">>)]),
      Some([status |-> Some(Str("ASSIGNED")), cf_fx_points |-> Some(<<"-", "-", "-">>),
            attachments |-> <<Phab>>, assigned_to |-> Some(Nobody)]),
      Some([status |-> Some(Str("RESOLVED")), cf_fx_points |-> None,
            attachments |-> <<>>, assigned_to |-> None]) }

\* ------------------------------------------------------------------ state
VARIABLES
    pc,            \* where main() is
    run,           \* 1 for the first invocation of the program, 2 for the next
    file,          \* jira.cache on disk
    cached_data,   \* the Map main() parsed from the file
    cache0,        \* history: cached_data as loaded at startup of this run
    remote,        \* what the two trackers have answered so far (they do not change)
    keys,          \* get_list: the keys of the list call
    issues,        \* get_list: rv
    chunk,         \* index of the next chunk of the running chunks(200) loop
    task,          \* the parallel map of get_bugs: one task per issue
    links,         \* get_bugs: links
    bz_statuses,   \* get_bugs: bz_statuses
    bugs,          \* main: bugs
    need_changes,  \* main: need_changes
    stdout,        \* the lines printed so far
    calls,         \* number of get_link calls of this run, by kind
    prev           \* history: what the first run linked and reported

vars == <<pc, run, file, cached_data, cache0, remote, keys, issues, chunk, task,
          links, bz_statuses, bugs, need_changes, stdout, calls, prev>>

Line(kind, id, a, b) == [kind |-> kind, id |-> id, a |-> a, b |-> b]
NoCalls == [list |-> 0, bulk |-> 0, bz |-> 0, link |-> [k \in AllKeys |-> 0]]
NoRemote == [answered |-> {}, list |-> <<>>, items |-> EmptyMap, links |-> EmptyMap,
             bugs |-> EmptyMap]

\* the process state of a freshly started program
Fresh ==
    /\ pc = "start"
    /\ cached_data = EmptyMap /\ cache0 = EmptyMap
    /\ keys = <<>> /\ issues = <<>> /\ chunk = 0 /\ task = <<>>
    /\ links = <<>> /\ bz_statuses = EmptyMap /\ bugs = <<>>
    /\ need_changes = FALSE /\ stdout = <<>> /\ calls = NoCalls

Init ==
    /\ Fresh
    /\ run = 1
    /\ file \in Files
    /\ remote = NoRemote
    /\ prev = [done |-> FALSE, report |-> <<>>, linked |-> {}]

\* get_link answers Err (non-success status) or panics (no answer, undecodable
\* body): either way the caller's unwrap ends the process.  A request the
\* trackers have answered before is answered again, the same way.
Outcomes(req) == IF req \in remote.answered THEN {TRUE} ELSE BOOLEAN

\* ------------------------------------------------------------ main: cache
\* faulty variant: the corrupt file is left in place
LoadCache_KeepsFile ==
    /\ pc = "start"
    /\ LET created == IF file.kind = "absent"
                      THEN [kind |-> "json", data |-> EmptyMap] ELSE file
       IN  IF created.kind = "corrupt"
           THEN /\ pc' = "aborted"
                /\ UNCHANGED <<file, cached_data, cache0, stdout>>
           ELSE /\ file' = created
                /\ cached_data' = created.data
                /\ cache0' = created.data
                /\ stdout' = Append(stdout, Line("found", <<>>,
                                 U64ToString(Cardinality(DOMAIN created.data)), <<>>))
                /\ pc' = "get_list"
    /\ UNCHANGED <<run, remote, keys, issues, chunk, task, links, bz_statuses, bugs,
                   need_changes, calls, prev>>

\* main, lines 280-292
LoadCache ==
    /\ pc = "start"
    /\ LET created == IF file.kind = "absent"
                      THEN [kind |-> "json", data |-> EmptyMap] ELSE file
       IN  IF created.kind = "corrupt"
           THEN /\ file' = [kind |-> "absent", data |-> EmptyMap]
                /\ pc' = "aborted"
                /\ UNCHANGED <<cached_data, cache0, stdout>>
           ELSE /\ file' = created
                /\ cached_data' = created.data
                /\ cache0' = created.data
                /\ stdout' = Append(stdout, Line("found", <<>>,
                                 U64ToString(Cardinality(DOMAIN created.data)), <<>>))
                /\ pc' = "get_list"
    /\ UNCHANGED <<run, remote, keys, issues, chunk, task, links, bz_statuses, bugs,
                   need_changes, calls, prev>>

\* ------------------------------------------------------------ get_list
\* get_list, lines 493-509: the list call
GetListCall ==
    /\ pc = "get_list"
    /\ calls' = [calls EXCEPT !.list = @ + 1]
    /\ \E ok \in Outcomes(<<"list">>) :
        IF ~ok
        THEN pc' = "aborted" /\ UNCHANGED <<remote, keys, chunk>>
        ELSE \E n \in 0..NumIssues :
               LET body == IF <<"list">> \in remote.answered THEN remote.list
                           ELSE [i \in 1..n |-> JiraKey(i)]
               IN  /\ remote' = [remote EXCEPT !.answered = @ \cup {<<"list">>},
                                               !.list = body]
                   /\ keys' = body
                   /\ chunk' = 1
                   /\ pc' = "get_issues"
    /\ UNCHANGED <<run, file, cached_data, cache0, issues, task, links, bz_statuses,
                   bugs, need_changes, stdout, prev>>

\* the raw items the tracker holds for the keys it has not been asked about yet
ItemChoices(ks) ==
    {f \in [Range(ks) \ DOMAIN remote.items -> UNION {JiraItems(k) : k \in AllKeys}] :
        \A k \in DOMAIN f : f[k].key = k}

\* get_list, lines 517-531: one bulk call per chunk of 200 keys
GetIssuesChunk ==
    /\ pc = "get_issues"
    /\ chunk <= Len(Chunks(keys, ChunkSize))
    /\ calls' = [calls EXCEPT !.bulk = @ + 1]
    /\ LET ks == Chunks(keys, ChunkSize)[chunk]
           req == <<"bulk", ks>>
       IN  \E ok \in Outcomes(req), f \in ItemChoices(ks) :
             LET items == [k \in (DOMAIN remote.items) \cup (DOMAIN f) |->
                              IF k \in DOMAIN f THEN f[k] ELSE remote.items[k]]
             IN  IF ~ok \/ \E i \in 1..Len(ks) : JiraIssuePanics(items[ks[i]])
                 THEN pc' = "aborted" /\ UNCHANGED <<remote, issues, chunk>>
                 ELSE /\ remote' = [remote EXCEPT !.answered = @ \cup {req},
                                                  !.items = items]
                      /\ issues' = issues \o [i \in 1..Len(ks) |-> JiraIssueNew(items[ks[i]])]
                      /\ chunk' = chunk + 1
                      /\ pc' = "get_issues"
    /\ UNCHANGED <<run, file, cached_data, cache0, keys, task, links, bz_statuses,
                   bugs, need_changes, stdout, prev>>

\* ------------------------------------------------------------ get_bugs: resolve
\* faulty variant: the cached value goes through the same stripping as a fresh url
LinkFromCache_Stripped(jira, cache) ==
    [bugzilla |-> Remove(cache[jira.key].s, BzUrlPrefix), jira |-> jira, cached |-> FALSE]

\* BugzillaJiraLink::new, lines 129-130: the key is in the cache
LinkFromCache(jira, cache) ==
    [bugzilla |-> cache[jira.key].s, jira |-> jira, cached |-> FALSE]

\* BugzillaJiraLink::new, lines 141-151: the first object of the answer
LinkFromRemote(jira, body) ==
    [bugzilla |-> Remove(body[1][1], BzUrlPrefix), jira |-> jira, cached |-> TRUE]

NoLinkLine(key) ==
    Line("nolink", key, <<"No link for https://mozilla-hub.atlassian.net/browse/">> \o key, <<>>)

\* get_bugs, lines 427-432: the parallel iterator starts, one task per issue
StartResolve ==
    /\ pc = "get_issues"
    /\ chunk > Len(Chunks(keys, ChunkSize))
    /\ task' = [i \in 1..Len(issues) |-> [st |-> "pending", link |-> None]]
    /\ chunk' = 0
    /\ pc' = "resolve"
    /\ UNCHANGED <<run, file, cached_data, cache0, remote, keys, issues, links,
                   bz_statuses, bugs, need_changes, stdout, calls, prev>>

\* BugzillaJiraLink::new, lines 129-136: the cache lookup; on a miss the
\* remotelink request is sent
TaskStart(i) ==
    /\ pc = "resolve"
    /\ task[i].st = "pending"
    /\ LET jira == issues[i]
       IN  IF jira.key \in DOMAIN cached_data
           THEN /\ task' = [task EXCEPT ![i] =
                      IF cached_data[jira.key].isStr
                      THEN [st |-> "done", link |-> Some(LinkFromCache(jira, cached_data))]
                      ELSE [st |-> "panicked", link |-> None]]
                /\ UNCHANGED calls
           ELSE /\ task' = [task EXCEPT ![i].st = "calling"]
                /\ calls' = [calls EXCEPT !.link[jira.key] = @ + 1]
    /\ UNCHANGED <<pc, run, file, cached_data, cache0, remote, keys, issues, chunk,
                   links, bz_statuses, bugs, need_changes, stdout, prev>>

\* faulty variant: the task writes what it found into the cache itself
TaskReturn_WritesCache(i) ==
    /\ pc = "resolve"
    /\ task[i].st = "calling"
    /\ LET jira == issues[i]
           req == <<"link", jira.key>>
       IN  \E ok \in Outcomes(req), b \in LinkBodies :
             LET body == IF req \in remote.answered THEN remote.links[jira.key] ELSE b
             IN  IF ~ok
                 THEN /\ task' = [task EXCEPT ![i].st = "panicked"]
                      /\ UNCHANGED <<remote, stdout, cached_data>>
                 ELSE /\ remote' = [remote EXCEPT !.answered = @ \cup {req},
                                                  !.links = Insert(@, jira.key, body)]
                      /\ IF body = <<>>
                         THEN /\ stdout' = Append(stdout, NoLinkLine(jira.key))
                              /\ task' = [task EXCEPT ![i].st = "done"]
                              /\ UNCHANGED cached_data
                         ELSE /\ stdout' = stdout
                              /\ task' = [task EXCEPT ![i] =
                                    IF body[1] = None
                                    THEN [st |-> "panicked", link |-> None]
                                    ELSE [st |-> "done",
                                          link |-> Some(LinkFromRemote(jira, body))]]
                              /\ cached_data' =
                                    IF body[1] = None THEN cached_data
                                    ELSE Insert(cached_data, jira.key,
                                                JString(LinkFromRemote(jira, body).bugzilla))
    /\ UNCHANGED <<pc, run, file, cache0, keys, issues, chunk, links,
                   bz_statuses, bugs, need_changes, calls, prev>>

\* BugzillaJiraLink::new, lines 136-157: the answer to the remotelink request
TaskReturn(i) ==
    /\ pc = "resolve"
    /\ task[i].st = "calling"
    /\ LET jira == issues[i]
           req == <<"link", jira.key>>
       IN  \E ok \in Outcomes(req), b \in LinkBodies :
             LET body == IF req \in remote.answered THEN remote.links[jira.key] ELSE b
             IN  IF ~ok
                 THEN /\ task' = [task EXCEPT ![i].st = "panicked"]
                      /\ UNCHANGED <<remote, stdout>>
                 ELSE /\ remote' = [remote EXCEPT !.answered = @ \cup {req},
                                                  !.links = Insert(@, jira.key, body)]
                      /\ IF body = <<>>
                         THEN /\ stdout' = Append(stdout, NoLinkLine(jira.key))
                              /\ task' = [task EXCEPT ![i].st = "done"]
                         ELSE /\ stdout' = stdout
                              /\ task' = [task EXCEPT ![i] =
                                    IF body[1] = None
                                    THEN [st |-> "panicked", link |-> None]
                                    ELSE [st |-> "done",
                                          link |-> Some(LinkFromRemote(jira, body))]]
    /\ UNCHANGED <<pc, run, file, cached_data, cache0, keys, issues, chunk, links,
                   bz_statuses, bugs, need_changes, calls, prev>>

\* a panic of a task is propagated to main by the parallel iterator; the tasks
\* not yet finished may or may not have run by then
ResolvePanic ==
    /\ pc = "resolve"
    /\ \E i \in DOMAIN task : task[i].st = "panicked"
    /\ pc' = "aborted"
    /\ UNCHANGED <<run, file, cached_data, cache0, remote, keys, issues, chunk, task,
                   links, bz_statuses, bugs, need_changes, stdout, calls, prev>>

RECURSIVE Flatten(_)
Flatten(ss) == IF ss = <<>> THEN <<>> ELSE Head(ss) \o Flatten(Tail(ss))

\* get_bugs, lines 438-440: filter_map and collect, in the order of the issues
Collect ==
    /\ pc = "resolve"
    /\ \A i \in DOMAIN task : task[i].st = "done"
    /\ links' = Flatten([i \in DOMAIN task |-> task[i].link])
    /\ chunk' = 1
    /\ pc' = "fetch_bz"
    /\ UNCHANGED <<run, file, cached_data, cache0, remote, keys, issues, task,
                   bz_statuses, bugs, need_changes, stdout, calls, prev>>

\* ------------------------------------------------------------ get_bugs: fetch
\* the bug numbers a bulk request for ids names
Asked(ids) == {n \in 1..NumBugs : U64ToString(n) \in Range(ids)}

BugChoices(ids) == [Asked(ids) \ DOMAIN remote.bugs -> BzRecords]

\* faulty variant: a failed bulk call is skipped and the loop goes on
FetchBzChunk_SkipsFailed ==
    /\ pc = "fetch_bz"
    /\ chunk <= Len(Chunks(links, ChunkSize))
    /\ calls' = [calls EXCEPT !.bz = @ + 1]
    /\ LET ls == Chunks(links, ChunkSize)[chunk]
           ids == [i \in 1..Len(ls) |-> ls[i].bugzilla]
           req == <<"bz", ids>>
       IN  \E ok \in Outcomes(req), f \in BugChoices(ids) :
             LET db == [n \in (DOMAIN remote.bugs) \cup (DOMAIN f) |->
                           IF n \in DOMAIN f THEN f[n] ELSE remote.bugs[n]]
                 got == {n \in Asked(ids) : db[n] # None}
             IN  IF ~ok
                 THEN UNCHANGED <<remote, bz_statuses>>
                 ELSE /\ remote' = [remote EXCEPT !.answered = @ \cup {req}, !.bugs = db]
                      /\ bz_statuses' =
                            [id \in (DOMAIN bz_statuses) \cup {U64ToString(n) : n \in got} |->
                                IF \E n \in got : U64ToString(n) = id
                                THEN db[CHOOSE n \in got : U64ToString(n) = id][1]
                                ELSE bz_statuses[id]]
    /\ chunk' = chunk + 1
    /\ pc' = "fetch_bz"
    /\ UNCHANGED <<run, file, cached_data, cache0, keys, issues, task, links, bugs,
                   need_changes, stdout, prev>>

\* get_bugs, lines 447-468: one bulk call per chunk of 200 links
FetchBzChunk ==
    /\ pc = "fetch_bz"
    /\ chunk <= Len(Chunks(links, ChunkSize))
    /\ calls' = [calls EXCEPT !.bz = @ + 1]
    /\ LET ls == Chunks(links, ChunkSize)[chunk]
           ids == [i \in 1..Len(ls) |-> ls[i].bugzilla]
           req == <<"bz", ids>>
       IN  \E ok \in Outcomes(req), f \in BugChoices(ids) :
             LET db == [n \in (DOMAIN remote.bugs) \cup (DOMAIN f) |->
                           IF n \in DOMAIN f THEN f[n] ELSE remote.bugs[n]]
                 got == {n \in Asked(ids) : db[n] # None}
             IN  IF ~ok
                 THEN pc' = "aborted" /\ UNCHANGED <<remote, bz_statuses, chunk>>
                 ELSE /\ remote' = [remote EXCEPT !.answered = @ \cup {req}, !.bugs = db]
                      /\ bz_statuses' =
                            [id \in (DOMAIN bz_statuses) \cup {U64ToString(n) : n \in got} |->
                                IF \E n \in got : U64ToString(n) = id
                                THEN db[CHOOSE n \in got : U64ToString(n) = id][1]
                                ELSE bz_statuses[id]]
                      /\ chunk' = chunk + 1
                      /\ pc' = "fetch_bz"
    /\ UNCHANGED <<run, file, cached_data, cache0, keys, issues, task, links, bugs,
                   need_changes, stdout, prev>>

\* ------------------------------------------------------------ get_bugs: merge
\* get_bugs, lines 474-478
RECURSIVE StageLinks(_, _)
StageLinks(ls, cache) ==
    IF ls = <<>> THEN cache
    ELSE StageLinks(Tail(ls),
             IF ~Head(ls).cached
             THEN Insert(cache, Head(ls).jira.key, JString(Head(ls).bugzilla))
             ELSE cache)

\* faulty variant: no link is dropped
Linkable_Always(link) == TRUE

\* get_bugs, lines 480-484
Linkable(link) == link.bugzilla # <<>>

\* get_bugs, lines 471-488.  A panic of BugzillaBug::new ends the process; its
\* memory is gone, so the variables keep their values.
Merge ==
    /\ pc = "fetch_bz"
    /\ chunk > Len(Chunks(links, ChunkSize))
    /\ LET kept == SelectSeq(links, Linkable)
       IN  IF \E i \in 1..Len(kept) : BugzillaBugPanics(kept[i], bz_statuses)
           THEN pc' = "aborted" /\ UNCHANGED <<cached_data, bugs>>
           ELSE /\ cached_data' = StageLinks(links, cached_data)
                /\ bugs' = [i \in 1..Len(kept) |-> BugzillaBugNew(kept[i], bz_statuses)]
                /\ pc' = "save"
    /\ chunk' = 0
    /\ UNCHANGED <<run, file, cache0, remote, keys, issues, task, links, bz_statuses,
                   need_changes, stdout, calls, prev>>

\* main, lines 297-299
Save ==
    /\ pc = "save"
    /\ file' = [kind |-> "json", data |-> cached_data]
    /\ pc' = "newly_assigned"
    /\ UNCHANGED <<run, cached_data, cache0, remote, keys, issues, chunk, task, links,
                   bz_statuses, bugs, need_changes, stdout, calls, prev>>

\* ------------------------------------------------------------ main: report
Section(title, lines) ==
    IF lines = <<>> THEN <<>> ELSE <<Line("header", <<>>, Str(title), <<>>)>> \o lines

\* main, line 318
IsNewlyAssigned(bug) == get_jira_status(bug) = Str("Open") /\ IsSome(bug.assignee)
\* faulty variant: any difference counts, also absent source points
PointsChanged_AnyDifference(bug) == bug.points # bug.jira.points
\* main, line 335
PointsChanged(bug) == IsSome(bug.points) /\ bug.points # bug.jira.points
\* main, line 348
StatusChanged(bug) == get_jira_status(bug) # bug.jira.status
\* main, line 361
AssigneeChanged(bug) == IsSome(bug.assignee) /\ get_jira_assignee(bug) # bug.jira.assignee
\* main, line 374
MissingEpic(bug) == bug.jira.epic = None
\* main, line 388
MissingSprint(bug) ==
    bug.jira.status \notin {Str("Open"), Str("Reopened")} /\ bug.jira.sprints = <<>>

\* faulty variant: the promotion is not stored
Promote_ReportOnly(bug) == bug
\* main, line 328
Promote(bug) == [bug EXCEPT !.status = Str("ASSIGNED")]

NewlyAssignedLine(bug) == Line("newly_assigned", bug.id, Str("NEW"), FmtStr(bug.assignee[1]))
PointsLine(bug) == Line("points", bug.id, FmtPoints(bug.jira.points), FmtPoints(bug.points))
StatusLine(bug) == Line("status", bug.id, FmtStr(bug.jira.status), FmtStr(get_jira_status(bug)))
AssigneeLine(bug) ==
    Line("assignee", bug.id, FmtOptStr(bug.jira.assignee), FmtOptStr(bug.assignee))
EpicLine(bug) == Line("epic", bug.id, bug.jira.key, <<>>)
SprintLine(bug) == Line("sprint", bug.jira.key, FmtStr(bug.jira.status), <<>>)

\* Each of the six loops of main prints the lines of the bugs its test selects,
\* under the header when there is any, and then does need_changes |= header.

\* main, lines 315-331
NewlyAssigned ==
    /\ pc = "newly_assigned"
    /\ LET hit == SelectSeq(bugs, IsNewlyAssigned)
       IN  /\ stdout' = stdout \o Section("Assigned bugs that are still NEW:",
                                           [i \in 1..Len(hit) |-> NewlyAssignedLine(hit[i])])
           /\ need_changes' = (need_changes \/ hit # <<>>)
    /\ bugs' = [i \in 1..Len(bugs) |->
                   IF IsNewlyAssigned(bugs[i]) THEN Promote(bugs[i]) ELSE bugs[i]]
    /\ pc' = "points"
    /\ UNCHANGED <<run, file, cached_data, cache0, remote, keys, issues, chunk, task,
                   links, bz_statuses, calls, prev>>

\* main, lines 333-344
Points ==
    /\ pc = "points"
    /\ LET hit == SelectSeq(bugs, PointsChanged)
       IN  /\ stdout' = stdout \o Section("Changed points:",
                                           [i \in 1..Len(hit) |-> PointsLine(hit[i])])
           /\ need_changes' = (need_changes \/ hit # <<>>)
    /\ pc' = "status"
    /\ UNCHANGED <<run, file, cached_data, cache0, remote, keys, issues, chunk, task,
                   links, bz_statuses, bugs, calls, prev>>

\* main, lines 346-357
Status ==
    /\ pc = "status"
    /\ LET hit == SelectSeq(bugs, StatusChanged)
       IN  /\ stdout' = stdout \o Section("Changed status:",
                                           [i \in 1..Len(hit) |-> StatusLine(hit[i])])
           /\ need_changes' = (need_changes \/ hit # <<>>)
    /\ pc' = "assignee"
    /\ UNCHANGED <<run, file, cached_data, cache0, remote, keys, issues, chunk, task,
                   links, bz_statuses, bugs, calls, prev>>

\* main, lines 359-370
Assignees ==
    /\ pc = "assignee"
    /\ LET hit == SelectSeq(bugs, AssigneeChanged)
       IN  /\ stdout' = stdout \o Section("Changed assignees:",
                                           [i \in 1..Len(hit) |-> AssigneeLine(hit[i])])
           /\ need_changes' = (need_changes \/ hit # <<>>)
    /\ pc' = "epic"
    /\ UNCHANGED <<run, file, cached_data, cache0, remote, keys, issues, chunk, task,
                   links, bz_statuses, bugs, calls, prev>>

\* main, lines 372-383
Epics ==
    /\ pc = "epic"
    /\ LET hit == SelectSeq(bugs, MissingEpic)
       IN  /\ stdout' = stdout \o Section("Missing epics:",
                                           [i \in 1..Len(hit) |-> EpicLine(hit[i])])
           /\ need_changes' = (need_changes \/ hit # <<>>)
    /\ pc' = "sprint"
    /\ UNCHANGED <<run, file, cached_data, cache0, remote, keys, issues, chunk, task,
                   links, bz_statuses, bugs, calls, prev>>

\* faulty variant: the last loop overwrites need_changes with its own header flag
Sprints_Overwrites ==
    /\ pc = "sprint"
    /\ LET hit == SelectSeq(bugs, MissingSprint)
       IN  /\ stdout' = stdout \o Section("Missing sprints:",
                                           [i \in 1..Len(hit) |-> SprintLine(hit[i])])
           /\ need_changes' = (hit # <<>>)
    /\ pc' = "finish"
    /\ UNCHANGED <<run, file, cached_data, cache0, remote, keys, issues, chunk, task,
                   links, bz_statuses, bugs, calls, prev>>

\* main, lines 385-397
Sprints ==
    /\ pc = "sprint"
    /\ LET hit == SelectSeq(bugs, MissingSprint)
       IN  /\ stdout' = stdout \o Section("Missing sprints:",
                                           [i \in 1..Len(hit) |-> SprintLine(hit[i])])
           /\ need_changes' = (need_changes \/ hit # <<>>)
    /\ pc' = "finish"
    /\ UNCHANGED <<run, file, cached_data, cache0, remote, keys, issues, chunk, task,
                   links, bz_statuses, bugs, calls, prev>>

\* main, lines 399-402
Finish ==
    /\ pc = "finish"
    /\ stdout' = IF ~need_changes
                 THEN Append(stdout, Line("nochange", <<>>, Str("No changes necessary!"), <<>>))
                 ELSE stdout
    /\ pc' = "done"
    /\ UNCHANGED <<run, file, cached_data, cache0, remote, keys, issues, chunk, task,
                   links, bz_statuses, bugs, need_changes, calls, prev>>

\* the discrepancy report: the sections and the notice, without the cache
\* count and the resolver's diagnostics
IsReportLine(l) == l.kind \notin {"found", "nolink"}
Report(out) == SelectSeq(out, IsReportLine)

\* the program is started again: jira.cache and the trackers are as the first
\* run left them
NextRun ==
    /\ pc = "done"
    /\ run = 1
    /\ run' = 2
    /\ prev' = [done |-> TRUE, report |-> Report(stdout),
                linked |-> {links[i].jira.key : i \in 1..Len(links)}]
    /\ pc' = "start"
    /\ cached_data' = EmptyMap /\ cache0' = EmptyMap
    /\ keys' = <<>> /\ issues' = <<>> /\ chunk' = 0 /\ task' = <<>>
    /\ links' = <<>> /\ bz_statuses' = EmptyMap /\ bugs' = <<>>
    /\ need_changes' = FALSE /\ stdout' = <<>> /\ calls' = NoCalls
    /\ UNCHANGED <<file, remote>>

Next ==
    \/ LoadCache
    \/ GetListCall
    \/ GetIssuesChunk
    \/ StartResolve
    \/ \E i \in DOMAIN task : TaskStart(i)
    \/ \E i \in DOMAIN task : TaskReturn(i)
    \/ ResolvePanic
    \/ Collect
    \/ FetchBzChunk
    \/ Merge
    \/ Save
    \/ NewlyAssigned
    \/ Points
    \/ Status
    \/ Assignees
    \/ Epics
    \/ Sprints
    \/ Finish
    \/ NextRun

Spec == Init /\ [][Next]_vars

\* ------------------------------------------------------------ classification
\* The run from the merge on, for one linked issue, over every combination of
\* the fields the classifier reads.
Obsolete == [content_type |-> Some(Str(PhabType)), is_obsolete |-> 1]

WideBzRecords ==
    { [status |-> Some(Str(st)), cf_fx_points |-> Some(pt), attachments |-> att,
       assigned_to |-> who] :
        st \in {"NEW", "UNCONFIRMED", "ASSIGNED", "REOPENED", "RESOLVED", "VERIFIED", "CLOSED"},
        pt \in {<<"-", "-", "-">>} \cup {U64ToString(n) : n \in 0..MaxPoints},
        att \in {<<>>, <<Phab>>, <<Obsolete>>},
        who \in {None, Some(Nobody), Some(<<"jaws", "@mozilla.com">>),
                 Some(<<"someone", "@mozilla.com">>), Some(<<"external", "@gmail.com">>)} }

WideJiraItems ==
    { [key |-> JiraKey(1), status |-> Some(st), assignee |-> who, epic |-> es[1],
       points |-> pt, sprints |-> es[2]] :
        st \in {<<"Open", Migrated>>, Str("In Progress"), Str("In Review"), Str("Closed"),
                Str("Reopened"), Str("VERIFIED")},
        who \in {None, Some(<<"jwein", "@mozilla.com">>), Some(<<"someone", "@mozilla.com">>),
                 BLAKE},
        pt \in {None, Some(1)} \cup {Some(2 * n) : n \in 0..MaxPoints},
        es \in {<<None, <<>>>>, <<Some(Str("FIDEFE-900")), <<Some(Str("Sprint 1"))>>>>} }

InitClassify ==
    \E item \in WideJiraItems, rec \in WideBzRecords :
        LET key == item.key
            body == <<Some(BugUrl(1))>>
            link == LinkFromRemote(JiraIssueNew(item), body)
        IN  /\ pc = "fetch_bz"
            /\ run = 1
            /\ file = [kind |-> "json", data |-> EmptyMap]
            /\ cached_data = EmptyMap /\ cache0 = EmptyMap
            /\ remote = [answered |-> {<<"list">>, <<"bulk", <<key>>>>, <<"link", key>>,
                                       <<"bz", <<link.bugzilla>>>>},
                         list |-> <<key>>,
                         items |-> Insert(EmptyMap, key, item),
                         links |-> Insert(EmptyMap, key, body),
                         bugs |-> Insert(EmptyMap, 1, Some(rec))]
            /\ keys = <<key>>
            /\ issues = <<JiraIssueNew(item)>>
            /\ chunk = 2
            /\ task = <<[st |-> "done", link |-> Some(link)]>>
            /\ links = <<link>>
            /\ bz_statuses = Insert(EmptyMap, link.bugzilla, rec)
            /\ bugs = <<>>
            /\ need_changes = FALSE
            /\ stdout = <<Line("found", <<>>, U64ToString(0), <<>>)>>
            /\ calls = [NoCalls EXCEPT !.list = 1, !.bulk = 1, !.bz = 1, !.link[key] = 1]
            /\ prev = [done |-> FALSE, report |-> <<>>, linked |-> {}]

NextClassify ==
    \/ Merge
    \/ Save
    \/ NewlyAssigned
    \/ Points
    \/ Status
    \/ Assignees
    \/ Epics
    \/ Sprints
    \/ Finish

SpecClassify == InitClassify /\ [][NextClassify]_vars

\* ------------------------------------------------------------ batching
\* The two chunks(200) loops on long lists: get_list's loop over the keys of
\* the list call, and get_bugs' loop over the collected links.

\* a well-formed item of the bulk response
ListedItem(key) ==
    [key |-> key, status |-> Some(<<"Open", Migrated>>), assignee |-> None,
     epic |-> None, points |-> None, sprints |-> <<>>]
\* the keys of a list response with n issues
ListedKeys(n) == [i \in 1..n |-> JiraKey(i)]
\* the remotelink answer for FIDEFE-i names bug i
KeyUrl(key) == <<BzUrlPrefix>> \o Tail(key)
KeyLink(key) == LinkFromRemote(JiraIssueNew(ListedItem(key)), <<Some(KeyUrl(key))>>)

\* the list lengths tried: every tenth one, those next to a multiple of the
\* batch size, and the longest
Lengths == {n \in 0..MaxIds : n % 10 = 0 \/ n % ChunkSize \in {1, ChunkSize - 1} \/ n = MaxIds}

\* either the list call has just returned n keys, or the resolve phase has
\* just collected n links
InitChunks ==
    \E n \in Lengths, collected \in BOOLEAN :
        LET ks == ListedKeys(n)
        IN  /\ run = 1
            /\ file = [kind |-> "json", data |-> EmptyMap]
            /\ cached_data = EmptyMap /\ cache0 = EmptyMap
            /\ keys = ks
            /\ chunk = 1
            /\ bz_statuses = EmptyMap
            /\ bugs = <<>>
            /\ need_changes = FALSE
            /\ stdout = <<Line("found", <<>>, U64ToString(0), <<>>)>>
            /\ prev = [done |-> FALSE, report |-> <<>>, linked |-> {}]
            /\ IF ~collected
               THEN /\ pc = "get_issues"
                    /\ remote = [answered |-> {<<"list">>},
                                 list |-> ks,
                                 items |-> [k \in Range(ks) |-> ListedItem(k)],
                                 links |-> EmptyMap,
                                 bugs |-> EmptyMap]
                    /\ issues = <<>>
                    /\ task = <<>>
                    /\ links = <<>>
                    /\ calls = [NoCalls EXCEPT !.list = 1]
               ELSE /\ pc = "fetch_bz"
                    /\ remote = [answered |-> {<<"list">>}
                                     \cup {<<"bulk", Chunks(ks, ChunkSize)[c]>> :
                                              c \in 1..Len(Chunks(ks, ChunkSize))}
                                     \cup {<<"link", k>> : k \in Range(ks)},
                                 list |-> ks,
                                 items |-> [k \in Range(ks) |-> ListedItem(k)],
                                 links |-> [k \in Range(ks) |-> <<Some(KeyUrl(k))>>],
                                 bugs |-> EmptyMap]
                    /\ issues = [i \in 1..n |-> JiraIssueNew(ListedItem(ks[i]))]
                    /\ task = [i \in 1..n |-> [st |-> "done", link |-> Some(KeyLink(ks[i]))]]
                    /\ links = [i \in 1..n |-> KeyLink(ks[i])]
                    /\ calls = [list |-> 1, bulk |-> Len(Chunks(ks, ChunkSize)), bz |-> 0,
                                link |-> [k \in Range(ks) |-> 1]]

NextChunks ==
    \/ GetIssuesChunk
    \/ StartResolve
    \/ FetchBzChunk
    \/ Merge

SpecChunks == InitChunks /\ [][NextChunks]_vars

\* ================================================================== claims
PcOrder == <<"start", "get_list", "get_issues", "resolve", "fetch_bz", "save",
             "newly_assigned", "points", "status", "assignee", "epic", "sprint",
             "finish", "done">>
Stage(p) == CHOOSE i \in 1..Len(PcOrder) : PcOrder[i] = p
\* main has completed the step it takes at p
Past(p) == pc # "aborted" /\ Stage(pc) > Stage(p)
HasLine(kind, id) == \E j \in 1..Len(stdout) : stdout[j].kind = kind /\ stdout[j].id = id
CountLines(kind, id) ==
    Cardinality({j \in 1..Len(stdout) : stdout[j].kind = kind /\ stdout[j].id = id})

\* the identifier the first object of a remotelink answer gives
Extracted(key) == Remove(remote.links[key][1][1], BzUrlPrefix)
\* an issue that was not in the cache at startup and has a remote link
Discovered(key) ==
    /\ key \notin DOMAIN cache0
    /\ key \in DOMAIN remote.links
    /\ remote.links[key] # <<>>

(* C1: once the cache file has been written, every issue whose key was not in
   the cache loaded at startup and whose remotelink answer is not empty has
   had exactly one remotelink call, and the file holds key -> extracted
   identifier. *)
C1_StagedOnce ==
    Past("save") =>
        \A i \in 1..Len(issues) :
            LET k == issues[i].key
            IN  Discovered(k) =>
                    /\ calls.link[k] = 1
                    /\ k \in DOMAIN file.data
                    /\ file.data[k] = JString(Extracted(k))

(* C2: a second run that starts from the cache file the first run wrote, with
   the trackers unchanged, makes no remotelink call for any issue the first
   run linked and prints the same discrepancy report. *)
C2_Idempotent ==
    (run = 2 /\ pc = "done") =>
        /\ \A k \in prev.linked : calls.link[k] = 0
        /\ Report(stdout) = prev.report

(* C3: an issue whose key is in the cache loaded at startup gets no
   remotelink call, and the Link made for it carries the cached identifier as
   it is in the cache. *)
C3_CacheHit ==
    /\ \A k \in DOMAIN cache0 : calls.link[k] = 0
    /\ \A i \in DOMAIN task :
          (issues[i].key \in DOMAIN cache0 /\ task[i].st = "done") =>
              /\ task[i].link # None
              /\ task[i].link[1].bugzilla = cache0[issues[i].key].s
    /\ \A i \in 1..Len(links) :
          links[i].jira.key \in DOMAIN cache0 =>
              links[i].bugzilla = cache0[links[i].jira.key].s

\* a cached full URL has been taken over as the identifier of a Link
C3_Witness ==
    /\ pc = "fetch_bz"
    /\ \E i \in 1..Len(links) :
          /\ links[i].jira.key \in DOMAIN cache0
          /\ links[i].bugzilla = BugUrl(1)

(* C4, as stated: with a cache file that is not valid JSON the run goes on
   from an empty cache. *)
C4_Continues ==
    [][(pc = "start" /\ file.kind = "corrupt") =>
          (pc' = "get_list" /\ cached_data' = EmptyMap /\ file'.kind # "corrupt")]_vars

(* C4, amended: with a cache file that is not valid JSON the file is deleted
   and the run aborts there: no remote call is made and nothing is printed. *)
C4_DeletesAndAborts ==
    [][(pc = "start" /\ file.kind = "corrupt") =>
          (pc' = "aborted" /\ file'.kind = "absent" /\ calls' = NoCalls /\ stdout' = <<>>)]_vars

\* the run stopped at the cache and the file is gone
C4_Witness == pc = "aborted" /\ file.kind = "absent" /\ calls = NoCalls /\ stdout = <<>>

\* the derivation table as the specification states it
TableAsStated(status, patch) ==
    IF status = Str("ASSIGNED")
    THEN (IF patch THEN Str("In Review") ELSE Str("In Progress"))
    ELSE IF status \in {Str("NEW"), Str("UNCONFIRMED"), Str("REOPENED")} THEN Str("Open")
    ELSE IF status \in {Str("RESOLVED"), Str("VERIFIED")} THEN Str("Closed")
    ELSE status

\* the table with REOPENED -> "Reopened" and VERIFIED passed through
TableAmended(status, patch) ==
    IF status = Str("ASSIGNED")
    THEN (IF patch THEN Str("In Review") ELSE Str("In Progress"))
    ELSE IF status \in {Str("NEW"), Str("UNCONFIRMED")} THEN Str("Open")
    ELSE IF status = Str("REOPENED") THEN Str("Reopened")
    ELSE IF status = Str("RESOLVED") THEN Str("Closed")
    ELSE status

\* what the "Changed status" loop printed for bug i shows the status derived
\* for it: a line naming d when d differs from the paired status, no line
\* when it does not
ShowsDerived(i, d) ==
    IF d # bugs[i].jira.status
    THEN /\ CountLines("status", bugs[i].id) = 1
         /\ Line("status", bugs[i].id, FmtStr(bugs[i].jira.status), FmtStr(d)) \in Range(stdout)
    ELSE CountLines("status", bugs[i].id) = 0

(* C5, as stated: the status derived for a bug follows the table with
   REOPENED -> "Open" and VERIFIED -> "Closed". *)
C5_TableAsStated ==
    Past("status") =>
        \A i \in 1..Len(bugs) :
            ShowsDerived(i, TableAsStated(bugs[i].status, bugs[i].has_patch))

(* C5, amended: ASSIGNED with patch -> "In Review"; ASSIGNED without patch ->
   "In Progress"; NEW and UNCONFIRMED -> "Open"; REOPENED -> "Reopened";
   RESOLVED -> "Closed"; every other status, VERIFIED included, unchanged. *)
C5_TableAmended ==
    Past("status") =>
        \A i \in 1..Len(bugs) :
            ShowsDerived(i, TableAmended(bugs[i].status, bugs[i].has_patch))

\* a REOPENED bug was reported as "Reopened", a VERIFIED one passed through
C5_Witness ==
    /\ Past("status")
    /\ Len(bugs) = 1
    /\ bugs[1].status = Str("REOPENED")
    /\ Line("status", bugs[1].id, FmtStr(Str("Open")), FmtStr(Str("Reopened"))) \in Range(stdout)

\* the raw source status of bug i as the bulk call returned it
Fetched(i) == bz_statuses[bugs[i].id].status[1]
\* the status the newly-assigned loop leaves bug i with
Promoted(i) ==
    IF Fetched(i) \in {Str("NEW"), Str("UNCONFIRMED")} /\ bugs[i].assignee # None
    THEN Str("ASSIGNED") ELSE Fetched(i)
StatusListed(i) == HasLine("status", bugs[i].id)

(* C6, as stated: a bug has a status-mismatch line iff the status derived
   (by the table, as amended under C5) from its raw source status as fetched
   differs from the paired status. *)
C6_FromFetchedStatus ==
    Past("status") =>
        \A i \in 1..Len(bugs) :
            StatusListed(i) <=>
                TableAmended(Fetched(i), bugs[i].has_patch) # bugs[i].jira.status

(* C6, amended: a bug has a status-mismatch line iff the status derived from
   its source status after the newly-assigned promotion (ASSIGNED for a NEW or
   UNCONFIRMED bug that has an assignee, the fetched status otherwise) differs
   from the paired status. *)
C6_FromPromotedStatus ==
    Past("status") =>
        \A i \in 1..Len(bugs) :
            StatusListed(i) <=>
                TableAmended(Promoted(i), bugs[i].has_patch) # bugs[i].jira.status

\* a fetched NEW bug with an assignee, paired with "Open", is listed
C6_Witness ==
    /\ Past("status")
    /\ Len(bugs) = 1
    /\ Fetched(1) = Str("NEW")
    /\ bugs[1].assignee # None
    /\ bugs[1].jira.status = Str("Open")
    /\ StatusListed(1)

(* C7: a bug has a points-mismatch line iff its source points are present and
   differ from the paired points; absent source points are never flagged. *)
C7_PointsFlagged ==
    Past("points") =>
        \A i \in 1..Len(bugs) :
            LET src == bugs[i].points
                paired == bugs[i].jira.points
            IN  HasLine("points", bugs[i].id) <=>
                    (src # None /\ (paired = None \/ paired[1] # src[1]))

\* source points present, paired points absent: flagged
C7_Witness ==
    /\ Past("points")
    /\ Len(bugs) = 1
    /\ bugs[1].points # None
    /\ bugs[1].jira.points = None
    /\ HasLine("points", bugs[1].id)

\* the remapping as the claim states it
Remapped(x) ==
    IF \E a \in Aliases : a[1] = x THEN (CHOOSE a \in Aliases : a[1] = x)[2]
    ELSE IF x[Len(x)] = "@mozilla.com" THEN x
    ELSE <<"bwinton", "@mozilla.com">>

(* C8: a bug has an assignee-mismatch line iff the source has an assignee and
   its remapped address differs from the paired assignee; jaws@mozilla.com is
   compared as jwein@mozilla.com, another @mozilla.com address as itself, any
   other address as the fallback. *)
C8_AssigneeFlagged ==
    Past("assignee") =>
        \A i \in 1..Len(bugs) :
            LET src == bugs[i].assignee
                paired == bugs[i].jira.assignee
                listed == HasLine("assignee", bugs[i].id)
            IN  /\ listed <=> (src # None /\ Some(Remapped(src[1])) # paired)
                /\ src = Some(<<"jaws", "@mozilla.com">>) =>
                      (listed <=> paired # Some(<<"jwein", "@mozilla.com">>))
                /\ src = Some(<<"someone", "@mozilla.com">>) =>
                      (listed <=> paired # Some(<<"someone", "@mozilla.com">>))
                /\ src = Some(<<"external", "@gmail.com">>) =>
                      (listed <=> paired # Some(<<"bwinton", "@mozilla.com">>))

\* an alias paired with its canonical address is not listed
C8_Witness ==
    /\ Past("assignee")
    /\ Len(bugs) = 1
    /\ bugs[1].assignee = Some(<<"jaws", "@mozilla.com">>)
    /\ bugs[1].jira.assignee = Some(<<"jwein", "@mozilla.com">>)
    /\ ~HasLine("assignee", bugs[1].id)

\* the links of a finished resolve phase that have an identifier
NonEmptyLinks == {i \in 1..Len(links) : links[i].bugzilla # <<>>}
\* the j-th of them, in the order of links
NthNonEmpty(j) ==
    CHOOSE i \in NonEmptyLinks : Cardinality({k \in NonEmptyLinks : k <= i}) = j
\* a link whose identifier the bulk answers do not cover, or cover with a
\* record that lacks status or cf_fx_points
Unjoinable(i) ==
    \/ links[i].bugzilla \notin DOMAIN bz_statuses
    \/ bz_statuses[links[i].bugzilla].status = None
    \/ bz_statuses[links[i].bugzilla].cf_fx_points = None
MergeEnabled == pc = "fetch_bz" /\ chunk > Len(Chunks(links, ChunkSize))

(* C9: no bug of the run has an empty identifier; the merge drops the links
   with an empty identifier without aborting, and turns every other link into
   exactly one bug, in order: it aborts only for a link with an identifier
   that cannot be joined. *)
C9_EmptyDropped ==
    [][ /\ \A j \in 1..Len(bugs') : bugs'[j].id # <<>>
        /\ MergeEnabled =>
             IF \E i \in NonEmptyLinks : Unjoinable(i)
             THEN pc' = "aborted"
             ELSE /\ pc' = "save"
                  /\ Len(bugs') = Cardinality(NonEmptyLinks)
                  /\ \A j \in 1..Len(bugs') :
                        /\ bugs'[j].id = links[NthNonEmpty(j)].bugzilla
                        /\ bugs'[j].jira = links[NthNonEmpty(j)].jira ]_vars

\* the merge went through with a link without identifier beside a linked bug
C9_Witness ==
    /\ pc = "save"
    /\ \E i \in 1..Len(links) : links[i].bugzilla = <<>>
    /\ Len(bugs) >= 1

\* the key of issue i got a Link
Linked(i) ==
    LET k == issues[i].key
    IN  k \in DOMAIN cache0 \/ (k \in DOMAIN remote.links /\ remote.links[k] # <<>>)
\* the keys staged by the merge: those of the links not flagged cached
Staged == {i \in 1..Len(links) : ~links[i].cached}

(* C10: the cache is not written while the resolve tasks run; whatever the
   order in which the tasks run and answer, a finished task has the outcome
   its issue, the loaded cache and the tracker's answer determine (the
   cached identifier, the extracted identifier, or no Link and one "No link"
   line), the links are collected in the order of the issues, and the cache
   after the merge is the loaded cache with the staged links written over
   it. *)
C10_OrderIndependent ==
    /\ pc = "resolve" => (cached_data = cache0 /\ file.data = cache0)
    /\ \A i \in DOMAIN task :
          task[i].st = "done" =>
              LET k == issues[i].key
              IN  IF k \in DOMAIN cache0
                  THEN /\ task[i].link # None
                       /\ task[i].link[1].bugzilla = cache0[k].s
                       /\ CountLines("nolink", k) = 0
                  ELSE IF remote.links[k] = <<>>
                  THEN /\ task[i].link = None
                       /\ CountLines("nolink", k) = 1
                  ELSE /\ task[i].link # None
                       /\ task[i].link[1].bugzilla = Extracted(k)
                       /\ CountLines("nolink", k) = 0
    /\ Past("resolve") =>
          [i \in 1..Len(links) |-> links[i].jira.key]
              = SelectSeq([i \in 1..Len(issues) |-> issues[i].key],
                          LAMBDA k : \E i \in 1..Len(issues) : issues[i].key = k /\ Linked(i))
    /\ Past("fetch_bz") =>
          /\ DOMAIN cached_data = (DOMAIN cache0) \cup {links[i].jira.key : i \in Staged}
          /\ \A i \in Staged : cached_data[links[i].jira.key] = JString(links[i].bugzilla)
          /\ \A k \in DOMAIN cache0 :
                (\A i \in Staged : links[i].jira.key # k) => cached_data[k] = cache0[k]

\* the second task has its answer while the first one is still waiting
C10_Witness ==
    /\ pc = "resolve"
    /\ Len(issues) >= 2
    /\ task[1].st = "calling"
    /\ task[2].st = "done"
    /\ issues[2].key \notin DOMAIN cache0
    /\ task[2].link # None

\* the request the step of main at its present position sends, if it sends one
Sends ==
    IF pc = "get_list" THEN {<<"list">>}
    ELSE IF pc = "get_issues" /\ chunk <= Len(Chunks(keys, ChunkSize))
    THEN {<<"bulk", Chunks(keys, ChunkSize)[chunk]>>}
    ELSE IF pc = "fetch_bz" /\ chunk <= Len(Chunks(links, ChunkSize))
    THEN {<<"bz", [i \in 1..Len(Chunks(links, ChunkSize)[chunk]) |->
                      Chunks(links, ChunkSize)[chunk][i].bugzilla]>>}
    ELSE {}
\* the step is a call of main that got no answer or a non-success status
CallFailed == calls' # calls /\ \E req \in Sends : req \notin remote'.answered
\* the step is the return of the remotelink call of task i without an answer
LinkCallFailed(i) ==
    /\ pc = "resolve"
    /\ task[i].st = "calling"
    /\ task'[i].st # "calling"
    /\ <<"link", issues[i].key>> \notin remote'.answered

(* C11: every step that makes a remote call is taken while nothing of the
   report (no section header, no discrepancy line, no "No changes necessary!")
   has been printed, and a step that prints some of the report makes no call;
   a list or bulk call that fails aborts the run at once, a failed remotelink
   call panics its task and a run with a panicked task never leaves the
   resolve phase except by aborting; an aborted run stays aborted and has
   printed nothing of the report. *)
C11_FailFast ==
    [][ /\ (calls' # calls /\ run' = run) =>
               Report(stdout) = <<>> /\ Report(stdout') = <<>>
        /\ (Report(stdout') # Report(stdout) /\ run' = run) =>
               /\ calls' = calls
               /\ \A i \in DOMAIN task : task[i].st = "done"
        /\ CallFailed => pc' = "aborted"
        /\ \A i \in DOMAIN task : LinkCallFailed(i) => task'[i].st = "panicked"
        /\ (\E i \in DOMAIN task' : task'[i].st = "panicked") =>
               pc' \in {"resolve", "aborted"}
        /\ pc = "aborted" => pc' = "aborted"
        /\ pc' = "aborted" => Report(stdout') = <<>>
      ]_vars

\* the list, the bulk fields and a remotelink call were answered, the paired
\* bulk fetch failed: the run is aborted with all four kinds of call made
C11_Witness ==
    /\ pc = "aborted"
    /\ calls.list = 1
    /\ calls.bulk = 1
    /\ \E k \in AllKeys : calls.link[k] = 1
    /\ calls.bz = 1
    /\ \A req \in remote.answered : req[1] # "bz"
    /\ Report(stdout) = <<>>

\* ceil(n / 200)
CeilBatches(n) == (n + 199) \div 200
\* the c-th batch of 200 of a list, by position
Batch(s, c) == SubSeq(s, 200 * (c - 1) + 1, IF 200 * c < Len(s) THEN 200 * c ELSE Len(s))
\* the identifiers of the collected links
LinkIds == [i \in 1..Len(links) |-> links[i].bugzilla]
\* the identifier lists of the bulk requests of one kind that were answered
Answered(kind) == {req[2] : req \in {r \in remote.answered : r[1] = kind}}
\* the batches a loop over s has had answered, its calls so far counted by made,
\* when over tells that the loop has ended
BatchedBy200(s, kind, made, over) ==
    LET got == Cardinality(Answered(kind))
        all == CeilBatches(Len(s))
    IN  /\ Answered(kind) = {Batch(s, c) : c \in 1..got}
        /\ got <= all
        /\ made \in {got, got + 1}
        /\ made <= all
        /\ over => got = all /\ made = all
        /\ Len(s) = 0 => made = 0
        /\ \A c \in 1..got :
              /\ c < all => Len(Batch(s, c)) = 200
              /\ c = all => Len(Batch(s, c)) \in 1..200
        /\ Flatten([c \in 1..got |-> Batch(s, c)])
              = SubSeq(s, 1, IF 200 * got < Len(s) THEN 200 * got ELSE Len(s))
        /\ Cardinality(Range(s)) = Len(s)
\* get_list's loop has ended
FetchOver == pc \in {"resolve", "fetch_bz", "save"} \/ (pc = "aborted" /\ (calls.bz > 0 \/ chunk = 0))
\* get_bugs' loop has ended
MergeOver == chunk = 0 /\ pc \in {"save", "aborted"}

(* C12: each of the two loops sends its identifiers in batches of 200: the
   batches answered so far are the first ones of the list by position, so
   every one but the last holds exactly 200 identifiers, the last between 1
   and 200, and each identifier is in exactly one batch, in input order; a
   loop that has ended has made exactly ceil(n/200) calls, none for an empty
   list; the issues built so far are those of the answered batches. *)
C12_Batches ==
    /\ BatchedBy200(keys, "bulk", calls.bulk, FetchOver)
    /\ BatchedBy200(LinkIds, "bz", calls.bz, MergeOver)
    /\ pc = "get_issues" =>
          [i \in 1..Len(issues) |-> issues[i].key]
              = SubSeq(keys, 1, Len(issues))
    /\ pc = "get_issues" =>
          Len(issues) = (IF 200 * calls.bulk < Len(keys) THEN 200 * calls.bulk ELSE Len(keys))

\* 450 identifiers: the third call of each loop has been answered
C12_Witness ==
    /\ Len(keys) = 450
    /\ \/ pc = "resolve" /\ calls.bulk = 3 /\ Len(Batch(keys, 3)) = 50
                         /\ <<"bulk", Batch(keys, 3)>> \in remote.answered
       \/ MergeOver /\ calls.bz = 3 /\ Len(Batch(LinkIds, 3)) = 50
                    /\ <<"bz", Batch(LinkIds, 3)>> \in remote.answered

\* the six categories, named by the kind of their lines, and their headers
Kinds == {"newly_assigned", "points", "status", "assignee", "epic", "sprint"}
Title(k) ==
    CASE k = "newly_assigned" -> "Assigned bugs that are still NEW:"
      [] k = "points" -> "Changed points:"
      [] k = "status" -> "Changed status:"
      [] k = "assignee" -> "Changed assignees:"
      [] k = "epic" -> "Missing epics:"
      [] k = "sprint" -> "Missing sprints:"
IsHeaderOf(l, k) == l.kind = "header" /\ l.a = Str(Title(k))
HasKind(k) == \E j \in 1..Len(stdout) : stdout[j].kind = k
HasHeader(k) == \E j \in 1..Len(stdout) : IsHeaderOf(stdout[j], k)
\* some bug meets the test of category k
Meets(k) ==
    \E i \in 1..Len(bugs) :
        CASE k = "points" -> PointsChanged(bugs[i])
          [] k = "status" -> StatusChanged(bugs[i])
          [] k = "assignee" -> AssigneeChanged(bugs[i])
          [] k = "epic" -> MissingEpic(bugs[i])
          [] k = "sprint" -> MissingSprint(bugs[i])

(* C13: at every point of a run the header of a category is on stdout if and
   only if a line of that category is; it is there once, a line of the
   category follows it directly, and every line of the category follows the
   header or another line of the category; once the loops have run, a
   category has a line exactly when one of the bugs meets its test; the
   notice "No changes necessary!" is printed only by the last step, as the
   last line, and a completed run has printed it if and only if none of the
   six categories has a line. *)
C13_NoticeAndHeaders ==
    /\ \A k \in Kinds : HasHeader(k) <=> HasKind(k)
    /\ \A j \in 1..Len(stdout) :
          LET l == stdout[j]
          IN  /\ l.kind = "header" =>
                    /\ j < Len(stdout)
                    /\ stdout[j + 1].kind \in Kinds
                    /\ l.a = Str(Title(stdout[j + 1].kind))
                    /\ \A i \in 1..(j - 1) : stdout[i] # l
              /\ l.kind \in Kinds =>
                    /\ j > 1
                    /\ stdout[j - 1].kind = l.kind \/ IsHeaderOf(stdout[j - 1], l.kind)
              /\ l.kind = "nochange" => pc = "done" /\ j = Len(stdout)
    /\ pc \in {"finish", "done"} =>
          \A k \in Kinds \ {"newly_assigned"} : HasKind(k) <=> Meets(k)
    /\ pc = "done" =>
          /\ HasLine("nochange", <<>>) <=> \A k \in Kinds : ~HasKind(k)
          /\ need_changes <=> \E k \in Kinds : HasKind(k)

\* a completed run with one reconciled bug and no discrepancy: only the notice
C13_Witness ==
    /\ pc = "done"
    /\ Len(bugs) = 1
    /\ HasLine("nochange", <<>>)
    /\ \A k \in Kinds : ~HasHeader(k)
====
